---- MODULE Spec2Model ----
(***************************************************************************)
(* Model of src/cd_dbm/cd_access.c: the CD catalogue store, two dbm tables *)
(* (catalogue records keyed by the padded catalogue string, track records  *)
(* keyed by the padded text "<catalog> <track_no>") behind open / close /  *)
(* get / add / delete / search functions.                                  *)
(*                                                                         *)
(* C strings are sequences of one-character strings without the            *)
(* terminating zero byte; a key is the fixed-width buffer, zero bytes      *)
(* included.  The dbm engine is the external library: it is modelled by    *)
(* the dbm_* operators below (a table is a function from key to value).    *)
(***************************************************************************)
EXTENDS Integers, Sequences, FiniteSets, TLC

(* ------------------------------ bounds -------------------------------- *)

\* cd_data.h is not part of the source tree; the model is parametric in the
\* catalogue bound and every buffer width is derived from it as in the code.
CAT_CAT_LEN == 3

\* capacity of one table: dbm_store fails (disk full) beyond it
MaxStored == 2

\* the loop counter of one search call saturates here
MaxIter == MaxStored + 2

\* engine handles one process can hold open: dbm_open fails beyond it
MaxOpen == 2

(* --------------------------- C strings -------------------------------- *)

NUL == "NUL"

\* "ABAB..." of length n
Str(n) == [i \in 1..n |-> IF i % 2 = 1 THEN "A" ELSE "B"]

strlen(s) == Len(s)

\* strstr(hay, needle) != NULL
strstr(hay, needle) ==
    \E i \in 0..(Len(hay) - Len(needle)) :
        SubSeq(hay, i + 1, i + Len(needle)) = needle

\* memset(buf, 0, n) then copy text into it: n bytes, text then zero bytes
Padded(text, n) == [i \in 1..n |-> IF i <= Len(text) THEN text[i] ELSE NUL]

DigitChar(d) == <<"0", "1", "2", "3", "4", "5", "6", "7", "8", "9">>[d + 1]

RECURSIVE Digits(_)
Digits(n) == IF n < 10 THEN <<DigitChar(n)>>
             ELSE Digits(n \div 10) \o <<DigitChar(n % 10)>>

\* printf's %d
FormatInt(n) == IF n < 0 THEN <<"-">> \o Digits(0 - n) ELSE Digits(n)

\* the text sprintf(buf, "%s %d", catalog, track_no) produces
TrackText(catalog, track_no) == catalog \o <<" ">> \o FormatInt(track_no)

(* ----------------------------- pointers ------------------------------- *)

NULLPTR == [isnull |-> TRUE, str |-> <<>>]
Ptr(s) == [isnull |-> FALSE, str |-> s]

NullDatum == [isnull |-> TRUE, bytes |-> <<>>]
Datum(b) == [isnull |-> FALSE, bytes |-> b]

NULL == "NULL"

(* ----------------------------- records -------------------------------- *)

\* memset(&entry_to_return, '\0', sizeof(entry_to_return))
EmptyCdc == [catalog |-> <<>>, payload |-> 0]
EmptyCdt == [catalog |-> <<>>, track_no |-> 0, payload |-> 0]

(* ------------------------------ inputs -------------------------------- *)

\* the fields of a record other than its key fields: two values that differ
Payloads == {1, 2}

\* catalogue strings the callers pass: "", "A", the longest valid one and one
\* of exactly the bound's length
CatalogStrings == {Str(0), Str(1), Str(CAT_CAT_LEN - 1), Str(CAT_CAT_LEN)}

CatalogPtrs == {Ptr(s) : s \in CatalogStrings} \cup {NULLPTR}

CdcEntries == [catalog : CatalogStrings, payload : Payloads]

\* the caller's first_call_ptr: null, or pointing to an int holding 0 or 1
NullFlagPtr == [isnull |-> TRUE, val |-> 0]
FlagPtr(v) == [isnull |-> FALSE, val |-> v]

\* search strings: the catalogue strings and "B", which occurs inside "AB.."
SearchPtrs == CatalogPtrs \cup {Ptr(<<"B">>)}

\* the arguments of search_cdc_entry: a string shorter than the bound with
\* either flag, and a string too long, a null string and a null flag pointer
SearchArgs ==
    ({p \in SearchPtrs : ~p.isnull /\ Len(p.str) < CAT_CAT_LEN}
        \X {FlagPtr(0), FlagPtr(1)})
    \cup {<<Ptr(Str(CAT_CAT_LEN)), FlagPtr(1)>>, <<NULLPTR, FlagPtr(1)>>,
          <<Ptr(Str(1)), NullFlagPtr>>}

\* track records: the longest valid catalogue string and one too long
TrackCatalogStrings == {Str(CAT_CAT_LEN - 1), Str(CAT_CAT_LEN)}

TrackCatalogPtrs == {Ptr(s) : s \in TrackCatalogStrings} \cup {NULLPTR}

\* int track numbers: a small one, and one whose text has 11 characters
TrackNos == {1, -1000000000}

\* the arguments of get_cdt_entry and del_cdt_entry: the valid string with each
\* track number, and the string too long and the null string with one
TrackArgs ==
    ({Ptr(Str(CAT_CAT_LEN - 1))} \X TrackNos)
    \cup {<<Ptr(Str(CAT_CAT_LEN)), 1>>, <<NULLPTR, 1>>}

CdtEntries ==
    [catalog : {Str(CAT_CAT_LEN - 1)}, track_no : TrackNos, payload : {1}]
    \cup {[catalog |-> Str(CAT_CAT_LEN), track_no |-> 1, payload |-> 1]}

(* ------------------------------- keys --------------------------------- *)

\* char entry_to_find[CAT_CAT_LEN + 1]; memset; strcpy
CdcKeyLen == CAT_CAT_LEN + 1
CdcKey(catalog) == Padded(catalog, CdcKeyLen)

\* char entry_to_find[CAT_CAT_LEN + 10]; memset; sprintf "%s %d"
CdtKeyLen == CAT_CAT_LEN + 10

\* sprintf writes the text and a terminating zero byte
TrackKeyFits(catalog, track_no) == Len(TrackText(catalog, track_no)) + 1 <= CdtKeyLen

\* the first CdtKeyLen bytes of the buffer once sprintf has written the text
CdtKey(catalog, track_no) ==
    LET text == TrackText(catalog, track_no)
    IN  IF Len(text) <= CdtKeyLen THEN Padded(text, CdtKeyLen)
        ELSE SubSeq(text, 1, CdtKeyLen)

\* what a build does when sprintf writes past the end of the key buffer
\* (undefined behaviour): the process is aborted, or the bytes past the end
\* are overwritten and the function carries on with the key buffer's bytes
OverrunOutcomes == {"abort", "overrun"}

SprintfOutcomes(catalog, track_no) ==
    IF TrackKeyFits(catalog, track_no) THEN {"fits"} ELSE OverrunOutcomes

(* ---------------------------- dbm engine ------------------------------ *)

EmptyTable == [k \in {} |-> EmptyCdc]

\* dbm_fetch: the value stored under the key, or a null datum
dbm_fetch(table, key) ==
    IF key \in DOMAIN table THEN Datum(table[key]) ELSE NullDatum

\* dbm_store(.., DBM_REPLACE) succeeds unless the table is full
dbm_store_ok(table, key) ==
    key \in DOMAIN table \/ Cardinality(DOMAIN table) < MaxStored

dbm_store(table, key, value) ==
    [k \in DOMAIN table \cup {key} |-> IF k = key THEN value ELSE table[k]]

\* dbm_delete returns 0 only when the key was there
dbm_delete_ok(table, key) == key \in DOMAIN table

dbm_delete(table, key) == [k \in DOMAIN table \ {key} |-> table[k]]

\* the engine's iteration order over the keys (a hash order)
CharCode(c) == IF c = NUL THEN 0 ELSE IF c = "A" THEN 1 ELSE 2

RECURSIVE KeyNum(_, _)
KeyNum(key, i) ==
    IF i > Len(key) THEN 0 ELSE CharCode(key[i]) + 3 * KeyNum(key, i + 1)

KeyRank(key) == ((KeyNum(key, 1) * 7) % 11) * 1000 + KeyNum(key, 1)

\* dbm_firstkey
dbm_firstkey(table) ==
    IF DOMAIN table = {} THEN NullDatum
    ELSE Datum(CHOOSE k \in DOMAIN table :
                 \A j \in DOMAIN table : KeyRank(k) <= KeyRank(j))

\* dbm_nextkey: the key after the one the handle returned last; null when the
\* handle has returned none, or that key is no longer stored, or it was the last
dbm_nextkey(table, memory) ==
    IF memory.isnull \/ memory.bytes \notin DOMAIN table THEN NullDatum
    ELSE LET later == {k \in DOMAIN table : KeyRank(k) > KeyRank(memory.bytes)}
         IN  IF later = {} THEN NullDatum
             ELSE Datum(CHOOSE k \in later : \A j \in later : KeyRank(k) <= KeyRank(j))

(* ------------------------------ state --------------------------------- *)

VARIABLES
    cdc_dbm_ptr,       \* static DBM *cdc_dbm_ptr: NULL or the open handle
    cdt_dbm_ptr,       \* static DBM *cdt_dbm_ptr
    cdc_file,          \* the catalogue table on disk: key -> cdc_entry
    cdt_file,          \* the track table on disk: key -> cdt_entry
    cdc_memory,        \* the key the catalogue handle returned last (its cursor)
    cdc_first_issued,  \* dbm_firstkey has been called on the catalogue handle
    open_handles,      \* engine handles opened by dbm_open and not yet closed
    local_first_call,  \* static int local_first_call in search_cdc_entry
    local_key_datum,   \* static datum local_key_datum in search_cdc_entry
    entry_to_return,   \* search_cdc_entry's entry_to_return while it runs
    cd_catalog_ptr,    \* search_cdc_entry's search string while it runs
    first_call,        \* the caller's int that first_call_ptr points to
    pc,                \* "idle", "search_loop" (inside do..while), "crashed"
    iter,              \* iterations of the do..while loop in the running call
    last,              \* the last call: its name, arguments and return value
    scan               \* the records the scan in progress has returned so far

vars == <<cdc_dbm_ptr, cdt_dbm_ptr, cdc_file, cdt_file, cdc_memory,
          cdc_first_issued, open_handles,
          local_first_call, local_key_datum, entry_to_return, cd_catalog_ptr,
          first_call, pc, iter, last, scan>>

store_vars == <<cdc_dbm_ptr, cdt_dbm_ptr, cdc_file, cdt_file, cdc_memory,
                cdc_first_issued, open_handles>>
search_vars == <<local_first_call, local_key_datum, entry_to_return,
                 cd_catalog_ptr, first_call, iter>>

NoScan == [state |-> "none", str |-> <<>>, out |-> <<>>]

\* if (!cdc_dbm_ptr || !cdt_dbm_ptr)
Closed == cdc_dbm_ptr = NULL \/ cdt_dbm_ptr = NULL

\* a new process, no database files yet
Init ==
    /\ cdc_dbm_ptr = NULL
    /\ cdt_dbm_ptr = NULL
    /\ cdc_file = EmptyTable
    /\ cdt_file = EmptyTable
    /\ cdc_memory = NullDatum
    /\ cdc_first_issued = FALSE
    /\ open_handles = 0
    /\ local_first_call = 1
    /\ local_key_datum = NullDatum
    /\ entry_to_return = EmptyCdc
    /\ cd_catalog_ptr = NULLPTR
    /\ first_call = 0
    /\ pc = "idle"
    /\ iter = 0
    /\ last = [op |-> "start"]
    /\ scan = NoScan

\* the process ends (or has crashed) and the program is run again: the statics
\* have their initial values, the files are what the last run left
ProcessRestart ==
    /\ pc \in {"idle", "crashed"}
    /\ last.op # "start"
    /\ cdc_dbm_ptr' = NULL
    /\ cdt_dbm_ptr' = NULL
    /\ cdc_memory' = NullDatum
    /\ cdc_first_issued' = FALSE
    /\ open_handles' = 0
    /\ local_first_call' = 1
    /\ local_key_datum' = NullDatum
    /\ first_call' = 0
    /\ pc' = "idle"
    /\ last' = [op |-> "start"]
    /\ scan' = NoScan
    /\ UNCHANGED <<cdc_file, cdt_file, entry_to_return, cd_catalog_ptr, iter>>

(* ------------------------ database_initialize -------------------------- *)

\* database_initialize without line 59: each pointer is what its dbm_open returned
InitializedPtrs_no_reset(ok_cdc, ok_cdt) ==
    <<IF ok_cdc THEN "cdc_data" ELSE NULL, IF ok_cdt THEN "cdt_data" ELSE NULL>>

\* the two pointers after lines 55-61, given which dbm_open calls succeeded
InitializedPtrs(ok_cdc, ok_cdt) ==
    IF ok_cdc /\ ok_cdt THEN <<"cdc_data", "cdt_data">> ELSE <<NULL, NULL>>

\* the handles the two pointers refer to
Referenced ==
    (IF cdc_dbm_ptr # NULL THEN 1 ELSE 0) + (IF cdt_dbm_ptr # NULL THEN 1 ELSE 0)

\* the open handles once database_initialize has returned: lines 39-44 close
\* the ones the pointers refer to, lines 55-56 open one per dbm_open that
\* succeeds, and lines 57-61 close none
HandlesAfterInitialize(ok_cdc, ok_cdt) ==
    (open_handles - Referenced) + (IF ok_cdc THEN 1 ELSE 0) + (IF ok_cdt THEN 1 ELSE 0)

database_initialize(new_database, ok_cdc, ok_cdt) ==
    /\ pc = "idle"
    /\ HandlesAfterInitialize(ok_cdc, ok_cdt) <= MaxOpen
    /\ open_handles' = HandlesAfterInitialize(ok_cdc, ok_cdt)
    /\ cdc_first_issued' = FALSE
    /\ cdc_file' = IF new_database # 0 THEN EmptyTable ELSE cdc_file
    /\ cdt_file' = IF new_database # 0 THEN EmptyTable ELSE cdt_file
    /\ cdc_dbm_ptr' = InitializedPtrs(ok_cdc, ok_cdt)[1]
    /\ cdt_dbm_ptr' = InitializedPtrs(ok_cdc, ok_cdt)[2]
    /\ cdc_memory' = NullDatum
    /\ last' = [op |-> "database_initialize", arg |-> new_database,
                ret |-> IF ok_cdc /\ ok_cdt THEN 1 ELSE 0]
    /\ scan' = NoScan
    /\ UNCHANGED <<search_vars, pc>>

database_close ==
    /\ pc = "idle"
    /\ open_handles' = open_handles - Referenced
    /\ cdc_first_issued' = FALSE
    /\ cdc_dbm_ptr' = NULL
    /\ cdt_dbm_ptr' = NULL
    /\ cdc_memory' = NullDatum
    /\ last' = [op |-> "database_close"]
    /\ scan' = NoScan
    /\ UNCHANGED <<cdc_file, cdt_file, search_vars, pc>>

(* --------------------------- catalogue table --------------------------- *)

\* get_cdc_entry fetching from the track table's handle instead
get_cdc_result_track_handle(ptr) ==
    IF Closed THEN EmptyCdc
    ELSE IF ptr.isnull THEN EmptyCdc
    ELSE IF strlen(ptr.str) >= CAT_CAT_LEN THEN EmptyCdc
    ELSE LET local_data_datum == dbm_fetch(cdt_file, CdcKey(ptr.str))
         IN  IF ~local_data_datum.isnull THEN local_data_datum.bytes ELSE EmptyCdc

\* the record get_cdc_entry returns
get_cdc_result(ptr) ==
    IF Closed THEN EmptyCdc
    ELSE IF ptr.isnull THEN EmptyCdc
    ELSE IF strlen(ptr.str) >= CAT_CAT_LEN THEN EmptyCdc
    ELSE LET local_data_datum == dbm_fetch(cdc_file, CdcKey(ptr.str))
         IN  IF ~local_data_datum.isnull THEN local_data_datum.bytes ELSE EmptyCdc

get_cdc_entry(ptr) ==
    /\ pc = "idle"
    /\ last' = [op |-> "get_cdc_entry", arg |-> ptr, ret |-> get_cdc_result(ptr)]
    /\ scan' = NoScan
    /\ UNCHANGED <<store_vars, search_vars, pc>>

\* add_cdc_entry with the length check off by one (> for >=)
add_cdc_stores_off_by_one(entry_to_add) ==
    /\ ~Closed
    /\ ~(strlen(entry_to_add.catalog) > CAT_CAT_LEN)
    /\ dbm_store_ok(cdc_file, CdcKey(entry_to_add.catalog))

\* add_cdc_entry stores the record (it passed the checks and dbm_store succeeded)
add_cdc_stores(entry_to_add) ==
    /\ ~Closed
    /\ ~(strlen(entry_to_add.catalog) >= CAT_CAT_LEN)
    /\ dbm_store_ok(cdc_file, CdcKey(entry_to_add.catalog))

add_cdc_entry(entry_to_add) ==
    /\ pc = "idle"
    /\ IF add_cdc_stores(entry_to_add)
       THEN /\ cdc_file' = dbm_store(cdc_file, CdcKey(entry_to_add.catalog), entry_to_add)
            /\ last' = [op |-> "add_cdc_entry", arg |-> entry_to_add, ret |-> 1]
       ELSE /\ cdc_file' = cdc_file
            /\ last' = [op |-> "add_cdc_entry", arg |-> entry_to_add, ret |-> 0]
    /\ scan' = NoScan
    /\ UNCHANGED <<cdc_dbm_ptr, cdt_dbm_ptr, cdt_file, cdc_memory, cdc_first_issued, open_handles, search_vars, pc>>

\* strlen(NULL) is undefined: the process is killed, or strlen runs over
\* whatever is mapped there and the length check rejects the argument
NullStrlenOutcomes == {"abort", "reject"}

\* del_cdc_entry reporting success whatever dbm_delete returned
del_cdc_outcomes_ignore_result(ptr) ==
    IF Closed THEN {"closed"}
    ELSE IF ptr.isnull THEN NullStrlenOutcomes
    ELSE IF strlen(ptr.str) >= CAT_CAT_LEN THEN {"toolong"}
    ELSE {"deleted"}

\* what del_cdc_entry does: "closed", "abort", "reject", "toolong", "deleted", "absent"
del_cdc_outcomes(ptr) ==
    IF Closed THEN {"closed"}
    ELSE IF ptr.isnull THEN NullStrlenOutcomes
    ELSE IF strlen(ptr.str) >= CAT_CAT_LEN THEN {"toolong"}
    ELSE IF dbm_delete_ok(cdc_file, CdcKey(ptr.str)) THEN {"deleted"}
    ELSE {"absent"}

\* del_cdc_entry deleting the catalogue's track records as well
del_cdc_entry_cascade(ptr) ==
    /\ pc = "idle"
    /\ \E outcome \in del_cdc_outcomes(ptr) :
         /\ cdc_file' = IF outcome = "deleted"
                        THEN dbm_delete(cdc_file, CdcKey(ptr.str)) ELSE cdc_file
         /\ cdt_file' = IF outcome = "deleted"
                        THEN [k \in {j \in DOMAIN cdt_file : cdt_file[j].catalog # ptr.str}
                                |-> cdt_file[k]]
                        ELSE cdt_file
         /\ pc' = IF outcome = "abort" THEN "crashed" ELSE "idle"
         /\ last' = IF outcome = "abort"
                    THEN [op |-> "del_cdc_entry", arg |-> ptr]
                    ELSE [op |-> "del_cdc_entry", arg |-> ptr,
                          ret |-> IF outcome = "deleted" THEN 1 ELSE 0]
    /\ scan' = NoScan
    /\ UNCHANGED <<cdc_dbm_ptr, cdt_dbm_ptr, cdc_memory, cdc_first_issued,
                   open_handles, search_vars>>

del_cdc_entry(ptr) ==
    /\ pc = "idle"
    /\ \E outcome \in del_cdc_outcomes(ptr) :
         /\ cdc_file' = IF outcome = "deleted"
                        THEN dbm_delete(cdc_file, CdcKey(ptr.str)) ELSE cdc_file
         /\ pc' = IF outcome = "abort" THEN "crashed" ELSE "idle"
         /\ last' = IF outcome = "abort"
                    THEN [op |-> "del_cdc_entry", arg |-> ptr]
                    ELSE [op |-> "del_cdc_entry", arg |-> ptr,
                          ret |-> IF outcome = "deleted" THEN 1 ELSE 0]
    /\ scan' = NoScan
    /\ UNCHANGED <<cdc_dbm_ptr, cdt_dbm_ptr, cdt_file, cdc_memory, cdc_first_issued, open_handles, search_vars>>

(* ----------------------------- track table ----------------------------- *)

\* what get_cdt_entry does: "closed", "null", "toolong", "abort", "fetched"
get_cdt_outcomes(ptr, track_no) ==
    IF Closed THEN {"closed"}
    ELSE IF ptr.isnull THEN {"null"}
    ELSE IF strlen(ptr.str) >= CAT_CAT_LEN THEN {"toolong"}
    ELSE {IF o = "abort" THEN "abort" ELSE "fetched" :
            o \in SprintfOutcomes(ptr.str, track_no)}

\* the record get_cdt_entry returns when it returns
get_cdt_result(ptr, track_no, outcome) ==
    IF outcome # "fetched" THEN EmptyCdt
    ELSE LET local_data_datum == dbm_fetch(cdt_file, CdtKey(ptr.str, track_no))
         IN  IF ~local_data_datum.isnull THEN local_data_datum.bytes ELSE EmptyCdt

get_cdt_entry(ptr, track_no) ==
    /\ pc = "idle"
    /\ \E outcome \in get_cdt_outcomes(ptr, track_no) :
         /\ pc' = IF outcome = "abort" THEN "crashed" ELSE "idle"
         /\ last' = IF outcome = "abort"
                    THEN [op |-> "get_cdt_entry", arg |-> ptr, track_no |-> track_no]
                    ELSE [op |-> "get_cdt_entry", arg |-> ptr, track_no |-> track_no,
                          ret |-> get_cdt_result(ptr, track_no, outcome)]
    /\ scan' = NoScan
    /\ UNCHANGED <<store_vars, search_vars>>

\* what add_cdt_entry does: "closed", "toolong", "abort", "stored", "full"
add_cdt_outcomes(entry_to_add) ==
    IF Closed THEN {"closed"}
    ELSE IF strlen(entry_to_add.catalog) >= CAT_CAT_LEN THEN {"toolong"}
    ELSE {IF o = "abort" THEN "abort"
          ELSE IF dbm_store_ok(cdt_file, CdtKey(entry_to_add.catalog, entry_to_add.track_no))
               THEN "stored" ELSE "full" :
            o \in SprintfOutcomes(entry_to_add.catalog, entry_to_add.track_no)}

add_cdt_entry(entry_to_add) ==
    /\ pc = "idle"
    /\ \E outcome \in add_cdt_outcomes(entry_to_add) :
         /\ cdt_file' = IF outcome = "stored"
                        THEN dbm_store(cdt_file,
                                       CdtKey(entry_to_add.catalog, entry_to_add.track_no),
                                       entry_to_add)
                        ELSE cdt_file
         /\ pc' = IF outcome = "abort" THEN "crashed" ELSE "idle"
         /\ last' = IF outcome = "abort"
                    THEN [op |-> "add_cdt_entry", arg |-> entry_to_add]
                    ELSE [op |-> "add_cdt_entry", arg |-> entry_to_add,
                          ret |-> IF outcome = "stored" THEN 1 ELSE 0]
    /\ scan' = NoScan
    /\ UNCHANGED <<cdc_dbm_ptr, cdt_dbm_ptr, cdc_file, cdc_memory, cdc_first_issued, open_handles, search_vars>>

\* what del_cdt_entry does: "closed", "abort", "reject", "toolong", "deleted", "absent"
del_cdt_outcomes(ptr, track_no) ==
    IF Closed THEN {"closed"}
    ELSE IF ptr.isnull THEN NullStrlenOutcomes
    ELSE IF strlen(ptr.str) >= CAT_CAT_LEN THEN {"toolong"}
    ELSE {IF o = "abort" THEN "abort"
          ELSE IF dbm_delete_ok(cdt_file, CdtKey(ptr.str, track_no))
               THEN "deleted" ELSE "absent" :
            o \in SprintfOutcomes(ptr.str, track_no)}

del_cdt_entry(ptr, track_no) ==
    /\ pc = "idle"
    /\ \E outcome \in del_cdt_outcomes(ptr, track_no) :
         /\ cdt_file' = IF outcome = "deleted"
                        THEN dbm_delete(cdt_file, CdtKey(ptr.str, track_no)) ELSE cdt_file
         /\ pc' = IF outcome = "abort" THEN "crashed" ELSE "idle"
         /\ last' = IF outcome = "abort"
                    THEN [op |-> "del_cdt_entry", arg |-> ptr, track_no |-> track_no]
                    ELSE [op |-> "del_cdt_entry", arg |-> ptr, track_no |-> track_no,
                          ret |-> IF outcome = "deleted" THEN 1 ELSE 0]
    /\ scan' = NoScan
    /\ UNCHANGED <<cdc_dbm_ptr, cdt_dbm_ptr, cdc_file, cdc_memory, cdc_first_issued, open_handles, search_vars>>

(* --------------------------- search_cdc_entry -------------------------- *)

\* search_cdc_entry without the check that the database is open
search_rejects_no_open_check(ptr, flag_ptr) ==
    \/ ptr.isnull \/ flag_ptr.isnull
    \/ strlen(ptr.str) >= CAT_CAT_LEN

\* lines 290-298: the call returns the empty record at once
search_rejects(ptr, flag_ptr) ==
    \/ Closed
    \/ ptr.isnull \/ flag_ptr.isnull
    \/ strlen(ptr.str) >= CAT_CAT_LEN

\* search_cdc_entry without the first-call latch of lines 301-304
latched_first_call_no_latch(flag_ptr) == flag_ptr.val

\* lines 301-304: *first_call_ptr once the first-call latch has been applied
latched_first_call(flag_ptr) == IF local_first_call # 0 THEN 1 ELSE flag_ptr.val

\* lines 309-314: the key the scan starts this call with
search_start_key(flag_ptr) ==
    IF latched_first_call(flag_ptr) # 0
    THEN dbm_firstkey(cdc_file)
    ELSE dbm_nextkey(cdc_file, cdc_memory)

\* the scan the caller is in once this call has been made: a call with
\* *first_call_ptr = 1 starts one, a call with 0 and the same string continues it
scan_at_call(ptr, flag_ptr) ==
    IF flag_ptr.val = 1 THEN [state |-> "running", str |-> ptr.str, out |-> <<>>]
    ELSE IF scan.state = "running" /\ scan.str = ptr.str THEN scan
    ELSE NoScan

scan_at_return(sc, ret) ==
    IF sc.state # "running" THEN sc
    ELSE IF ret.catalog = <<>> THEN [sc EXCEPT !.state = "done"]
    ELSE [sc EXCEPT !.out = Append(sc.out, ret)]

\* lines 281-314: the checks, the latch and the first cursor step
search_cdc_entry(ptr, flag_ptr) ==
    /\ pc = "idle"
    /\ IF search_rejects(ptr, flag_ptr)
       THEN /\ first_call' = IF flag_ptr.isnull THEN first_call ELSE flag_ptr.val
            /\ last' = [op |-> "search_cdc_entry", arg |-> ptr, flag |-> flag_ptr,
                        ret |-> EmptyCdc]
            /\ scan' = NoScan
            /\ UNCHANGED <<store_vars, local_first_call, local_key_datum,
                           entry_to_return, cd_catalog_ptr, iter, pc>>
       ELSE /\ local_first_call' = 0
            /\ first_call' = 0
            /\ local_key_datum' = search_start_key(flag_ptr)
            /\ cdc_memory' = search_start_key(flag_ptr)
            /\ cdc_first_issued' = (cdc_first_issued \/ latched_first_call(flag_ptr) # 0)
            /\ entry_to_return' = EmptyCdc
            /\ cd_catalog_ptr' = ptr
            /\ iter' = 0
            /\ pc' = "search_loop"
            /\ last' = [op |-> "search_cdc_entry", arg |-> ptr, flag |-> flag_ptr,
                        started |-> latched_first_call(flag_ptr)]
            /\ scan' = scan_at_call(ptr, flag_ptr)
            /\ UNCHANGED <<cdc_dbm_ptr, cdt_dbm_ptr, cdc_file, cdt_file, open_handles>>

\* one pass through the body of do { } (lines 317-329): <<key, data, entry>> after it
loop_body ==
    IF local_key_datum.isnull
    THEN <<local_key_datum, NullDatum, entry_to_return>>
    ELSE LET local_data_datum == dbm_fetch(cdc_file, local_key_datum.bytes)
         IN  IF local_data_datum.isnull
             THEN <<local_key_datum, local_data_datum, entry_to_return>>
             ELSE IF ~strstr(local_data_datum.bytes.catalog, cd_catalog_ptr.str)
             THEN <<dbm_nextkey(cdc_file, cdc_memory), local_data_datum, EmptyCdc>>
             ELSE <<local_key_datum, local_data_datum, local_data_datum.bytes>>

\* the condition of while ( ) (lines 330-331) after that pass
loop_again(body) ==
    /\ ~body[1].isnull
    /\ ~body[2].isnull
    /\ body[3].catalog = <<>>

\* lines 316-333: one iteration of the loop, and the return when it ends
search_loop ==
    /\ pc = "search_loop"
    /\ LET body == loop_body
       IN  /\ local_key_datum' = body[1]
           /\ cdc_memory' = body[1]
           /\ IF loop_again(body)
              THEN /\ entry_to_return' = body[3]
                   /\ iter' = IF iter < MaxIter THEN iter + 1 ELSE iter
                   /\ UNCHANGED <<pc, last, scan, cd_catalog_ptr>>
              ELSE /\ entry_to_return' = EmptyCdc
                   /\ iter' = 0
                   /\ cd_catalog_ptr' = NULLPTR
                   /\ pc' = "idle"
                   /\ last' = [op |-> "search_cdc_entry", arg |-> last.arg,
                               flag |-> last.flag, started |-> last.started,
                               ret |-> body[3]]
                   /\ scan' = scan_at_return(scan, body[3])
    /\ UNCHANGED <<cdc_dbm_ptr, cdt_dbm_ptr, cdc_file, cdt_file,
                   cdc_first_issued, open_handles, local_first_call, first_call>>

Next ==
    \/ ProcessRestart
    \/ \E new_database \in {0, 1}, ok_cdc \in BOOLEAN, ok_cdt \in BOOLEAN :
         database_initialize(new_database, ok_cdc, ok_cdt)
    \/ database_close
    \/ \E ptr \in CatalogPtrs : get_cdc_entry(ptr)
    \/ \E entry_to_add \in CdcEntries : add_cdc_entry(entry_to_add)
    \/ \E ptr \in CatalogPtrs : del_cdc_entry(ptr)
    \/ \E args \in TrackArgs : get_cdt_entry(args[1], args[2])
    \/ \E entry_to_add \in CdtEntries : add_cdt_entry(entry_to_add)
    \/ \E args \in TrackArgs : del_cdt_entry(args[1], args[2])
    \/ \E args \in SearchArgs : search_cdc_entry(args[1], args[2])
    \/ search_loop

Spec == Init /\ [][Next]_vars

(* ============================ properties =============================== *)

HasRet == "ret" \in DOMAIN last

ValidCatalogStrings == {c \in CatalogStrings : strlen(c) < CAT_CAT_LEN}
LongCatalogStrings == {c \in CatalogStrings : strlen(c) >= CAT_CAT_LEN}

\* C1: catalogue round trip.  Right after add_cdc_entry(r) has returned 1,
\* get_cdc_entry(r.catalog) returns a record equal to r.
C1_CatalogRoundTrip ==
    (last.op = "add_cdc_entry" /\ last.ret = 1)
        => get_cdc_result(Ptr(last.arg.catalog)) = last.arg

\* add_cdc_entry has just stored a record under the longest valid catalogue string
C1_Witness ==
    /\ last.op = "add_cdc_entry" /\ last.ret = 1
    /\ last.arg.catalog = Str(CAT_CAT_LEN - 1)
    /\ last.arg.payload = 2

\* C2: track round trip.  Right after add_cdt_entry(t) has returned 1,
\* get_cdt_entry(t.catalog, t.track_no) returns a record equal to t, for every
\* track_no.
C2_TrackRoundTrip ==
    (last.op = "add_cdt_entry" /\ HasRet /\ last.ret = 1)
        => \A outcome \in get_cdt_outcomes(Ptr(last.arg.catalog), last.arg.track_no) :
              /\ outcome # "abort"
              /\ get_cdt_result(Ptr(last.arg.catalog), last.arg.track_no, outcome) = last.arg

\* the round trip of the track records whose key text fits the key buffer
TrackRoundTripWhenKeyFits ==
    (/\ last.op = "add_cdt_entry" /\ HasRet /\ last.ret = 1
     /\ TrackKeyFits(last.arg.catalog, last.arg.track_no))
        => \A outcome \in get_cdt_outcomes(Ptr(last.arg.catalog), last.arg.track_no) :
              get_cdt_result(Ptr(last.arg.catalog), last.arg.track_no, outcome) = last.arg

\* the stored catalogue records whose catalog field contains the string
Matching(str) ==
    {cdc_file[k] : k \in {j \in DOMAIN cdc_file : strstr(cdc_file[j].catalog, str)}}

\* a scan that has ended returned exactly the matching records, each once
ScanExact ==
    scan.state = "done"
        => /\ {scan.out[i] : i \in 1..Len(scan.out)} = Matching(scan.str)
           /\ Len(scan.out) = Cardinality(Matching(scan.str))

\* a call that goes round the loop again holds no record: the record it
\* examined did not contain the string (one that does is returned)
ScanCallReturnsMatch ==
    (pc = "search_loop" /\ iter >= 1) => entry_to_return = EmptyCdc

\* C3: scan completeness.  A scan started with flag 1 and continued with flag
\* 0, nothing else called in between, returns exactly the stored records whose
\* catalog field contains the string, each once, and then the empty record.
C3_ScanCompleteness == ScanExact /\ ScanCallReturnsMatch

\* a key that is not stored reads as the empty record
AbsentReadsEmpty ==
    \A c \in ValidCatalogStrings :
        CdcKey(c) \notin DOMAIN cdc_file => get_cdc_result(Ptr(c)) = EmptyCdc

\* a call of del_cdc_entry that has returned 1 has removed its key
DeletedReadsEmpty ==
    (last.op = "del_cdc_entry" /\ HasRet /\ last.ret = 1)
        => /\ CdcKey(last.arg.str) \notin DOMAIN cdc_file
           /\ get_cdc_result(last.arg) = EmptyCdc

\* a key that is not stored stays so until add_cdc_entry stores it again
AbsentUntilAdded ==
    \A c \in ValidCatalogStrings :
        (/\ CdcKey(c) \notin DOMAIN cdc_file
         /\ CdcKey(c) \in DOMAIN cdc_file')
            => (last'.op = "add_cdc_entry" /\ last'.arg.catalog = c /\ last'.ret = 1)

\* del_cdc_entry returns 1 only when the database is open and the key was stored
DeleteReportsRemoval ==
    (last' # last /\ last'.op = "del_cdc_entry" /\ "ret" \in DOMAIN last')
        => (last'.ret = 1 <=> (/\ ~Closed
                               /\ ~last'.arg.isnull
                               /\ CdcKey(last'.arg.str) \in DOMAIN cdc_file
                               /\ strlen(last'.arg.str) < CAT_CAT_LEN))

\* C4: delete-then-get.  After del_cdc_entry(k) has returned 1, get_cdc_entry(k)
\* returns the empty record until k is added again; del_cdc_entry(k) returns 0
\* when k is not stored.
C4_DeleteThenGet ==
    /\ [](AbsentReadsEmpty /\ DeletedReadsEmpty)
    /\ [][AbsentUntilAdded /\ DeleteReportsRemoval]_vars

\* del_cdc_entry has just removed a record while another one stays stored
C4_Witness ==
    /\ last.op = "del_cdc_entry" /\ HasRet /\ last.ret = 1
    /\ cdc_file # EmptyTable

\* database_initialize(nonzero) has just returned 1
ResetOpened ==
    last.op = "database_initialize" /\ last.arg # 0 /\ last.ret = 1

\* a scan started now with flag 1 returns the empty record at once
FreshScanReturnsEmpty ==
    \A ptr \in SearchPtrs :
        ~search_rejects(ptr, FlagPtr(1)) => search_start_key(FlagPtr(1)).isnull

\* after a reset-open both tables are empty and every catalogue lookup and
\* fresh scan returns the empty record
ResetEmptiesTables ==
    ResetOpened
        => /\ cdc_file = EmptyTable /\ cdt_file = EmptyTable
           /\ \A ptr \in CatalogPtrs : get_cdc_result(ptr) = EmptyCdc
           /\ FreshScanReturnsEmpty

\* C5: reset-open yields an empty store.  After database_initialize(nonzero)
\* has returned 1, get_cdc_entry and get_cdt_entry return the empty record for
\* every key and a fresh scan returns the empty record.
C5_ResetOpenEmpty ==
    ResetOpened
        => /\ \A ptr \in CatalogPtrs : get_cdc_result(ptr) = EmptyCdc
           /\ \A ptr \in TrackCatalogPtrs, track_no \in TrackNos :
                \A outcome \in get_cdt_outcomes(ptr, track_no) :
                    /\ outcome # "abort"
                    /\ get_cdt_result(ptr, track_no, outcome) = EmptyCdt
           /\ FreshScanReturnsEmpty

RecordOps == {"get_cdc_entry", "get_cdt_entry", "add_cdc_entry", "add_cdt_entry",
              "del_cdc_entry", "del_cdt_entry", "search_cdc_entry"}

\* the call recorded in last returned the empty record, or 0
ReturnedEmpty(call) ==
    /\ "ret" \in DOMAIN call
    /\ IF call.op \in {"get_cdc_entry", "search_cdc_entry"} THEN call.ret = EmptyCdc
       ELSE IF call.op = "get_cdt_entry" THEN call.ret = EmptyCdt
       ELSE call.ret = 0

\* C6: closed-store guard.  A record operation called while the store is closed
\* returns the empty record or 0 and changes neither the tables, the handles,
\* the cursor, the first-call latch nor the caller's flag.
C6_ClosedStoreGuard ==
    [][(Closed /\ pc = "idle" /\ last' # last /\ last'.op \in RecordOps)
          => /\ ReturnedEmpty(last')
             /\ pc' = "idle"
             /\ UNCHANGED <<store_vars, local_first_call, local_key_datum>>
             /\ (last'.op = "search_cdc_entry"
                   => first_call' = IF last'.flag.isnull THEN first_call
                                    ELSE last'.flag.val)
             /\ (last'.op # "search_cdc_entry" => first_call' = first_call)]_vars

\* a search with a valid string and flag 1 was called on a store that had been
\* closed with records in the catalogue table
C6_Witness ==
    /\ Closed /\ cdc_file # EmptyTable
    /\ last.op = "search_cdc_entry" /\ ~last.arg.isnull /\ last.arg.str = Str(1)
    /\ ~last.flag.isnull /\ last.flag.val = 1

\* the operations that take a catalogue string
StringOps == {"get_cdc_entry", "get_cdt_entry", "del_cdc_entry", "del_cdt_entry",
              "search_cdc_entry"}

\* C7: null-argument soft failure.  Every operation that takes a catalogue
\* string returns the empty record or 0 when that argument is null, in every
\* store state, without crashing.
C7_NullArgumentSoftFailure ==
    (last.op \in StringOps /\ last.arg.isnull)
        => (pc # "crashed" /\ ReturnedEmpty(last))

\* the catalogue string of the call recorded in last
CallCatalog(call) ==
    IF call.op \in {"add_cdc_entry", "add_cdt_entry"} THEN Ptr(call.arg.catalog)
    ELSE call.arg

\* no stored record has a catalog field as long as the bound
StoredCatalogsShort ==
    /\ \A k \in DOMAIN cdc_file : strlen(cdc_file[k].catalog) < CAT_CAT_LEN
    /\ \A k \in DOMAIN cdt_file : strlen(cdt_file[k].catalog) < CAT_CAT_LEN

\* C8: length boundary.  A call whose catalogue string is as long as the bound
\* or longer returns the empty record or 0, and no stored record has a catalog
\* field that long.
C8_LengthBoundary ==
    /\ StoredCatalogsShort
    /\ (/\ last.op \in RecordOps
        /\ ~CallCatalog(last).isnull
        /\ strlen(CallCatalog(last).str) >= CAT_CAT_LEN)
            => ReturnedEmpty(last)

\* add_cdc_entry was called on an open store with a record whose catalog
\* field is exactly as long as the bound
C8_Witness ==
    /\ ~Closed
    /\ last.op = "add_cdc_entry"
    /\ strlen(last.arg.catalog) = CAT_CAT_LEN

\* C9: no partial-open state.  The two handles are both open or both closed,
\* and database_initialize returns 1 exactly when both are open and 0 exactly
\* when both are closed.
C9_NoPartialOpen ==
    /\ (cdc_dbm_ptr = NULL <=> cdt_dbm_ptr = NULL)
    /\ last.op = "database_initialize"
         => /\ (last.ret = 1 <=> (cdc_dbm_ptr # NULL /\ cdt_dbm_ptr # NULL))
            /\ (last.ret = 0 <=> (cdc_dbm_ptr = NULL /\ cdt_dbm_ptr = NULL))

\* database_initialize has just failed
C9_Witness ==
    /\ last.op = "database_initialize" /\ last.ret = 0
    /\ cdc_dbm_ptr = NULL /\ cdt_dbm_ptr = NULL

\* C10: found / not-found sentinel.  On an open store, get_cdc_entry(k) for a
\* string k shorter than the bound returns a record with a non-empty catalog
\* field exactly when a record is stored under k.
C10_FoundSentinel ==
    ~Closed
        => \A c \in ValidCatalogStrings :
              (get_cdc_result(Ptr(c)).catalog # <<>>) <=> (CdcKey(c) \in DOMAIN cdc_file)

\* the sentinel for the strings that are not empty
FoundSentinelNonEmptyKey ==
    ~Closed
        => \A c \in ValidCatalogStrings \ {<<>>} :
              (get_cdc_result(Ptr(c)).catalog # <<>>) <=> (CdcKey(c) \in DOMAIN cdc_file)

\* the stored catalogue records whose catalog field is c
StoredUnder(c) == {k \in DOMAIN cdc_file : cdc_file[k].catalog = c}

\* after add_cdc_entry(r) has returned 1 the table holds r, and no other
\* record with r's catalog string
OverwriteKeepsLatest ==
    (last.op = "add_cdc_entry" /\ last.ret = 1)
        => /\ get_cdc_result(Ptr(last.arg.catalog)).payload = last.arg.payload
           /\ StoredUnder(last.arg.catalog) = {CdcKey(last.arg.catalog)}
           /\ Matching(<<>>) \cap {r \in CdcEntries : r.catalog = last.arg.catalog}
                 = {last.arg}

\* a full scan (the empty search string) returns every stored record once: a
\* full scan that has ended returned each stored key once, and a call of a
\* full scan returns the record it examines first
FullScanReturnsEachOnce ==
    /\ (scan.state = "done" /\ scan.str = <<>>)
          => /\ Len(scan.out) = Cardinality(DOMAIN cdc_file)
             /\ \A k \in DOMAIN cdc_file :
                   Cardinality({i \in 1..Len(scan.out) : scan.out[i] = cdc_file[k]}) = 1
    /\ (pc = "search_loop" /\ ~cd_catalog_ptr.isnull /\ cd_catalog_ptr.str = <<>>)
          => iter = 0

\* C11: overwrite keeps only the latest payload.  After add_cdc_entry(r1) and
\* add_cdc_entry(r2) with the same catalog string have returned 1,
\* get_cdc_entry returns r2, the table holds one record for that key, and a
\* full scan returns that key once.
C11_OverwriteKeepsLatest == OverwriteKeepsLatest /\ FullScanReturnsEachOnce

\* the catalogue string of a track call recorded in a call record
TrackCallCatalog(call) ==
    IF call.op = "add_cdt_entry" THEN Ptr(call.arg.catalog) ELSE call.arg

\* what get_cdt_entry does and returns for every stored track of the catalogue
\* string of the step's call is the same after the step
TrackReadsUnchanged ==
    /\ cdt_dbm_ptr' = cdt_dbm_ptr
    /\ \A k \in DOMAIN cdt_file :
          (~last'.arg.isnull /\ cdt_file[k].catalog = last'.arg.str) =>
              \A ptr \in {Ptr(cdt_file[k].catalog)}, track_no \in {cdt_file[k].track_no} :
                  /\ get_cdt_outcomes(ptr, track_no)' = get_cdt_outcomes(ptr, track_no)
                  /\ \A outcome \in get_cdt_outcomes(ptr, track_no) :
                        get_cdt_result(ptr, track_no, outcome)'
                            = get_cdt_result(ptr, track_no, outcome)

\* what get_cdc_entry returns for the catalogue string of the step's track
\* call is the same after the step
CatalogReadsUnchanged ==
    \A ptr \in CatalogPtrs \cup TrackCatalogPtrs :
        ptr = TrackCallCatalog(last') => get_cdc_result(ptr)' = get_cdc_result(ptr)

\* C12: no cascading delete.  del_cdc_entry leaves the track table unchanged,
\* so get_cdt_entry returns for the deleted catalogue's tracks what it returned
\* before; del_cdt_entry and add_cdt_entry leave the catalogue table unchanged.
C12_NoCascadingDelete ==
    [][/\ (last' # last /\ last'.op = "del_cdc_entry")
            => (cdt_file' = cdt_file /\ TrackReadsUnchanged)
       /\ (last' # last /\ last'.op \in {"del_cdt_entry", "add_cdt_entry"})
            => (cdc_file' = cdc_file /\ CatalogReadsUnchanged)]_vars

\* del_cdc_entry has just removed a catalogue record that has a track record
C12_Witness ==
    /\ last.op = "del_cdc_entry" /\ HasRet /\ last.ret = 1
    /\ \E k \in DOMAIN cdt_file : cdt_file[k].catalog = last.arg.str

\* the step is the first call of search_cdc_entry in this process that passes
\* the checks of lines 290-298
FirstSearchCall == pc = "idle" /\ local_first_call # 0 /\ pc' = "search_loop"

\* C13: first-call override.  The first search_cdc_entry call that passes the
\* checks starts at the first key of the catalogue table whatever flag the
\* caller passed, and the flag tells the caller afterwards that a fresh start
\* occurred (it holds 1).
C13_FirstCallReportsFreshStart ==
    [][FirstSearchCall
          => /\ local_key_datum' = dbm_firstkey(cdc_file)
             /\ first_call' = 1]_vars

\* C13 as amended: the first call that passes the checks starts at the first
\* key whatever flag the caller passed and clears the latch; the caller's flag
\* holds 0 afterwards, as after every call that passes the checks.
C13_FirstCallOverride ==
    [][/\ FirstSearchCall
            => /\ local_key_datum' = dbm_firstkey(cdc_file)
               /\ last'.started = 1
               /\ local_first_call' = 0
       /\ (pc = "idle" /\ pc' = "search_loop") => first_call' = 0
       /\ (pc = "search_loop") => first_call' = first_call]_vars

\* the first search call was made with flag 0 on a table that holds records,
\* and returned the first record all the same
C13_Witness ==
    /\ last.op = "search_cdc_entry" /\ HasRet
    /\ ~last.flag.isnull /\ last.flag.val = 0
    /\ "started" \in DOMAIN last /\ last.started = 1
    /\ last.ret # EmptyCdc
    /\ first_call = 0

\* C14: scan termination.  A search_cdc_entry call returns after finitely
\* many cursor advances: every pass through the loop that does not return
\* advances the cursor, so a call goes round the loop at most once per stored
\* key.
C14_ScanTerminates ==
    pc = "search_loop" => iter <= Cardinality(DOMAIN cdc_file)

\* the calls whose search string is not empty go round at most once per key
ScanTerminatesNonEmptyString ==
    (pc = "search_loop" /\ cd_catalog_ptr.str # <<>>)
        => iter <= Cardinality(DOMAIN cdc_file)

\* C15: cursor ordering across re-open.  dbm_nextkey is never called on a
\* catalogue handle on which dbm_firstkey has not been called since it was
\* opened, so the first search on a new handle starts from the first key.
C15_CursorOrdering ==
    (last.op = "search_cdc_entry" /\ "started" \in DOMAIN last /\ last.started = 0)
        => cdc_first_issued

\* C16: no leaked handle.  Every engine handle that was opened and not yet
\* closed is referenced by cdc_dbm_ptr or cdt_dbm_ptr.
C16_NoLeakedHandle == open_handles = Referenced

\* the track number of a track call recorded in last
TrackCallNo(call) ==
    IF call.op = "add_cdt_entry" THEN call.arg.track_no ELSE call.track_no

\* C17: track key fits its buffer.  For every call of get_cdt_entry,
\* add_cdt_entry and del_cdt_entry that builds a key, the text
\* "<catalog> <track_no>" and its zero byte fit the key buffer, and every
\* stored key is that text zero-padded to the buffer's width.
C17_TrackKeyFitsBuffer ==
    /\ (/\ last.op \in {"get_cdt_entry", "add_cdt_entry", "del_cdt_entry"}
        /\ ~Closed
        /\ ~TrackCallCatalog(last).isnull
        /\ strlen(TrackCallCatalog(last).str) < CAT_CAT_LEN)
            => TrackKeyFits(TrackCallCatalog(last).str, TrackCallNo(last))
    /\ \A k \in DOMAIN cdt_file :
          k = Padded(TrackText(cdt_file[k].catalog, cdt_file[k].track_no), CdtKeyLen)

\* the keys of the calls with a small track number fit
TrackKeyFitsSmallTrackNo ==
    \A c \in TrackCatalogStrings :
        strlen(c) < CAT_CAT_LEN => TrackKeyFits(c, 1)

====
